---------------------------- MODULE Spec2Model ----------------------------
(***************************************************************************)
(* A model of the embedded vector store (VectorStore: Records, IDMap and   *)
(* its sync.RWMutex), of AddItem, Search, Save and Load, and of the        *)
(* process around them (main: boot, serve, save on shutdown).              *)
(*                                                                         *)
(* Numbers.  The program computes in float32.  Here a raw component is an  *)
(* integer, and a normalized component x is held in fixed point as the     *)
(* integer x * Scale, truncated: every float32 rounding becomes a          *)
(* truncation to 1/Scale.  A score (a dot product of two normalized        *)
(* vectors) is an integer in units of 1/Scale^2.  NaN and the infinities   *)
(* are outside the model.                                                  *)
(*                                                                         *)
(* Indices are 0-based as in the Go code; a TLA+ sequence s holds the Go   *)
(* element s[i] at s[i+1].                                                 *)
(***************************************************************************)
EXTENDS Integers, Sequences, FiniteSets, TLC

\* ------------------------------------------------------------------ bounds

\* Fixed-point steps per unit (the precision that stands for float32).
Scale == 10
\* runtime.NumCPU() ranges over 1..MaxWorkers.
MaxWorkers == 2
\* The k of a Search call ranges over -1..MaxK.
MaxK == 3
\* The ids of the single-client specification are the first NumIds of IdNames.
NumIds == 4
\* The components given to Quantize range over -MaxAbs.0 .. MaxAbs.0.
MaxAbs == 2
\* The partition of Search is computed for 0..MaxRecords records and
\* 1..MaxCPUs workers.
MaxRecords == 12
MaxCPUs == 5
\* The vectors given to DotProduct have 0..MaxLen components.
MaxLen == 9

\* ----------------------------------------------------------- input domains

IdNames == <<"a", "b", "c", "d", "e">>

Ids == {IdNames[i] : i \in 1..NumIds}

\* The ids the server specification's requests use.
ServerIds == {IdNames[1], IdNames[2]}

\* A map[string]string: nil or a set of <<key, value>> pairs, one per key.
NilMap == [nil |-> TRUE, kv |-> {}]

MakeMap(pairs) == [nil |-> FALSE, kv |-> pairs]

\* The raw query embeddings of a Search call.
QueryVectors == {<<1, 0>>}

\* What one AddItem call may store: <<vector, metadata, namespace>>.
ItemInputs ==
  {<<<<1, 0>>, MakeMap({<<"tag", "x">>}), "ns1">>,
   <<<<2, 1>>, NilMap, "ns1">>,
   <<<<1, 1>>, MakeMap({<<"tag", "">>}), "">>,
   <<<<0, 0>>, MakeMap({}), "">>}

\* The filters of a Search call: <<namespace, filterKey, filterVal>>.
Filters ==
  {<<"", "", "">>, <<"ns1", "", "">>, <<"", "tag", "x">>, <<"", "tag", "">>}

\* ------------------------------------------------------------- arithmetic

\* Go's integer division and float-to-integer conversion truncate toward zero.
TruncDiv(a, b) == IF a >= 0 THEN a \div b ELSE -((-a) \div b)

RECURSIVE SqrtFrom(_, _)
SqrtFrom(n, r) == IF (r + 1) * (r + 1) > n THEN r ELSE SqrtFrom(n, r + 1)

\* math.Sqrt, truncated.
ISqrt(n) == SqrtFrom(n, 0)

\* int8(x) of an integer-valued x: the low 8 bits, as the amd64 and arm64
\* builds give them.
ToInt8(x) == ((x + 128) % 256) - 128

\* ------------------------------------------------- vector math primitives

Panic == [panic |-> TRUE, val |-> 0]

Value(x) == [panic |-> FALSE, val |-> x]

\* The groups-of-four loop of DotProduct: for i := 0; i < n-3; i += 4.
\* Reading b[i+3] past len(b) is a run-time panic (index out of range).
RECURSIVE DotGroups(_, _, _, _)
DotGroups(a, b, i, sum) ==
  IF i < Len(a) - 3
    THEN IF i + 3 >= Len(b)
           THEN Panic
           ELSE DotGroups(a, b, i + 4,
                  sum + a[i + 1] * b[i + 1] + a[i + 2] * b[i + 2]
                      + a[i + 3] * b[i + 3] + a[i + 4] * b[i + 4])
    ELSE Value(sum)

\* The remainder loop of DotProduct: for i := (n/4)*4; i < n; i++.
RECURSIVE DotTail(_, _, _, _)
DotTail(a, b, i, sum) ==
  IF i < Len(a)
    THEN IF i >= Len(b) THEN Panic
         ELSE DotTail(a, b, i + 1, sum + a[i + 1] * b[i + 1])
    ELSE Value(sum)

\* DotProduct without its remainder loop.
DotProductGroupsOnly(a, b) == DotGroups(a, b, 0, 0)

DotProduct(a, b) ==
  LET g == DotGroups(a, b, 0, 0)
  IN  IF g.panic THEN Panic ELSE DotTail(a, b, (Len(a) \div 4) * 4, g.val)

RECURSIVE SumSquares(_, _)
SumSquares(v, i) == IF i > Len(v) THEN 0 ELSE v[i] * v[i] + SumSquares(v, i + 1)

\* mag, in units of 1/Scale.
Magnitude(v) == ISqrt(SumSquares(v, 1) * Scale * Scale)

\* Normalize that turns a vector of zero magnitude into the first unit vector.
NormalizeZeroToUnit(v) ==
  LET mag == Magnitude(v)
  IN  IF mag = 0 THEN [i \in 1..Len(v) |-> IF i = 1 THEN Scale ELSE 0]
      ELSE [i \in 1..Len(v) |-> TruncDiv(v[i] * Scale * Scale, mag)]

\* A zero magnitude returns the input itself; otherwise every component is
\* divided by the magnitude.
Normalize(v) ==
  LET mag == Magnitude(v)
  IN  IF mag = 0 THEN v
      ELSE [i \in 1..Len(v) |-> TruncDiv(v[i] * Scale * Scale, mag)]

\* int8(val * 127.0) of each component.
Quantize(v) == [i \in 1..Len(v) |-> ToInt8(TruncDiv(v[i] * 127, Scale))]

\* ---------------------------------------------------------- the data model

\* Record{ID, Vector, Quantized, Metadata, Namespace}
MakeRecord(id, vector, quantized, meta, namespace) ==
  [ID |-> id, Vector |-> vector, Quantized |-> quantized, Metadata |-> meta,
   Namespace |-> namespace]

\* SearchResult{ID, Score}
SearchResult(id, score) == [ID |-> id, Score |-> score]

\* rec.Metadata[key]: the value, or "" when the key is absent or the map nil.
MapGet(m, key) ==
  IF \E p \in m.kv : p[1] = key
    THEN (CHOOSE p \in m.kv : p[1] = key)[2]
    ELSE ""

\* make(map[string]int)
EmptyIDMap == [x \in {} |-> 0]

\* vs.IDMap[id] = n
MapSet(m, id, n) == [x \in DOMAIN m \cup {id} |-> IF x = id THEN n ELSE m[x]]

\* ------------------------------------------- ResultHeap and container/heap

\* h[i].Score < h[j].Score: a min-heap on the score.
Less(h, i, j) == h[i + 1].Score < h[j + 1].Score

Swap(h, i, j) == [h EXCEPT ![i + 1] = h[j + 1], ![j + 1] = h[i + 1]]

\* heap.up: the parent of j is (j-1)/2, which Go truncates to 0 for j = 0.
RECURSIVE Up(_, _)
Up(h, j) ==
  LET i == TruncDiv(j - 1, 2)
  IN  IF i = j \/ ~Less(h, j, i) THEN h ELSE Up(Swap(h, i, j), i)

\* heap.down over the first n elements.
RECURSIVE Down(_, _, _)
Down(h, i, n) ==
  LET j1 == 2 * i + 1
      j2 == j1 + 1
      j  == IF j2 < n /\ Less(h, j2, j1) THEN j2 ELSE j1
  IN  IF j1 >= n THEN h
      ELSE IF ~Less(h, j, i) THEN h
      ELSE Down(Swap(h, i, j), j, n)

\* heap.Push(h, x): append, then up(len-1).
HeapPush(h, x) == Up(Append(h, x), Len(h))

\* heap.Pop(h): swap(0, n), down(0, n), then remove and return the last.
HeapPop(h) ==
  LET n == Len(h) - 1
      d == Down(Swap(h, 0, n), 0, n)
  IN  [heap |-> SubSeq(d, 1, n), x |-> d[n + 1]]

\* Offer with the eviction forgotten: once the heap is full nothing enters.
OfferNeverEvicts(h, res, k) ==
  IF Len(h) < k THEN [panic |-> FALSE, heap |-> HeapPush(h, res)]
  ELSE IF Len(h) = 0 THEN [panic |-> TRUE, heap |-> h]
  ELSE [panic |-> FALSE, heap |-> h]

\* One step of the bounded top-k: push while the heap holds fewer than k,
\* else replace the minimum when the score exceeds it.  Reading (*h)[0] of an
\* empty heap is a run-time panic (index out of range).
Offer(h, res, k) ==
  IF Len(h) < k THEN [panic |-> FALSE, heap |-> HeapPush(h, res)]
  ELSE IF Len(h) = 0 THEN [panic |-> TRUE, heap |-> h]
  ELSE IF res.Score > h[1].Score
    THEN [panic |-> FALSE, heap |-> HeapPush(HeapPop(h).heap, res)]
    ELSE [panic |-> FALSE, heap |-> h]

\* Drain filling results from index 0 up: the pop order, ascending.
RECURSIVE DrainAscending(_)
DrainAscending(h) ==
  IF Len(h) = 0 THEN <<>>
  ELSE LET p == HeapPop(h) IN <<p.x>> \o DrainAscending(p.heap)

\* results[idx] = heap.Pop(h) for idx = len-1 down to 0: the first pop (the
\* minimum) lands last.
RECURSIVE Drain(_)
Drain(h) ==
  IF Len(h) = 0 THEN <<>>
  ELSE LET p == HeapPop(h) IN Append(Drain(p.heap), p.x)

\* ------------------------------------------------------------------- state

VARIABLES
  Records,       \* vs.Records
  IDMap,         \* vs.IDMap: id -> 0-based position
  readerCount,   \* sync.RWMutex: goroutines holding the lock shared
  writer,        \* sync.RWMutex: the goroutine that holds w (waiting or inside)
  pc,            \* where each goroutine stands; "main" is func main
  call,          \* the arguments of each goroutine's current call
  wpc,           \* Search: each shard worker, "run" or "done"
  shards,        \* Search: the (start, end) each shard worker was given
  wg,            \* Search: the WaitGroup counter
  workChan,      \* Search: the buffered channel of partial results
  chanClosed,    \* Search: close(workChan) has run
  finalHeap,     \* Search: the merge heap
  finalResults,  \* Search: the list returned
  file,          \* vectors.json on disk
  saved,         \* history: the Records of the last complete Save on disk
  exit           \* history: how the process last ended

vars ==
  <<Records, IDMap, readerCount, writer, pc, call, wpc, shards, wg, workChan,
    chanClosed, finalHeap, finalResults, file, saved, exit>>

store == <<Records, IDMap>>

lock == <<readerCount, writer>>

searchVars == <<wpc, shards, wg, workChan, chanClosed, finalHeap, finalResults>>

disk == <<file, saved>>

None == "none"

NoCall == [op |-> "none"]

Threads == DOMAIN pc

Handlers == Threads \ {"main"}

\* The HTTP server accepts requests from ListenAndServe until srv.Shutdown.
Serving == pc["main"] \in {"serving", "save", "sv_open", "sv_write"}

NoFile == [exists |-> FALSE, recs |-> <<>>, closed |-> FALSE]

\* ------------------------------------------------------------ the process

\* The memory of a process that has just started: NewVectorStore(), an
\* unlocked mutex, no request in flight.
FreshMemory(threads) ==
  /\ Records = <<>>
  /\ IDMap = EmptyIDMap
  /\ readerCount = 0
  /\ writer = None
  /\ call = [t \in threads |-> NoCall]
  /\ wpc = [t \in threads |-> <<>>]
  /\ shards = [t \in threads |-> <<>>]
  /\ wg = [t \in threads |-> 0]
  /\ workChan = [t \in threads |-> <<>>]
  /\ chanClosed = [t \in threads |-> FALSE]
  /\ finalHeap = [t \in threads |-> <<>>]
  /\ finalResults = [t \in threads |-> <<>>]

\* How a process ended: the cause and, for a panic, the call that raised it.
ExitOf(cause, op, k) == [cause |-> cause, op |-> op, k |-> k]

\* The process is running, or has never run.
NoExit == ExitOf("none", "", 0)

\* The process ends (a panic in any goroutine, a kill, or main returning):
\* its memory is gone, the file stays.
ProcessDies(cause) ==
  /\ Records' = <<>>
  /\ IDMap' = EmptyIDMap
  /\ readerCount' = 0
  /\ writer' = None
  /\ pc' = [t \in Threads |-> IF t = "main" THEN "down" ELSE "idle"]
  /\ call' = [t \in Threads |-> NoCall]
  /\ wpc' = [t \in Threads |-> <<>>]
  /\ shards' = [t \in Threads |-> <<>>]
  /\ wg' = [t \in Threads |-> 0]
  /\ workChan' = [t \in Threads |-> <<>>]
  /\ chanClosed' = [t \in Threads |-> FALSE]
  /\ finalHeap' = [t \in Threads |-> <<>>]
  /\ finalResults' = [t \in Threads |-> <<>>]
  /\ exit' = cause
  /\ UNCHANGED disk

\* ---------------------------------------------------------------- AddItem

\* The record AddItem builds: the normalized vector, its quantization, and
\* the caller's metadata and namespace.
NewRecord(c) ==
  LET norm == Normalize(c.vector)
  IN  MakeRecord(c.id, norm, Quantize(norm), c.meta, c.namespace)

\* vs.Lock(), first half: take the writers' mutex and announce the writer;
\* from here on no new reader gets in.
AddItemCall(t, id, item) ==
  /\ Serving
  /\ pc[t] = "idle"
  /\ writer = None
  /\ writer' = t
  /\ call' = [call EXCEPT ![t] = [op |-> "AddItem", id |-> id, vector |-> item[1],
                                  meta |-> item[2], namespace |-> item[3],
                                  exists |-> FALSE]]
  /\ pc' = [pc EXCEPT ![t] = "a_wait"]
  /\ UNCHANGED <<store, readerCount, searchVars, disk, exit>>

\* AddItemLocked that does not wait for the readers to leave.
AddItemLockedNoWait(t) ==
  /\ pc[t] = "a_wait"
  /\ pc' = [pc EXCEPT ![t] = "a_body"]
  /\ UNCHANGED <<store, lock, call, searchVars, disk, exit>>

\* vs.Lock(), second half: wait until the readers have left.
AddItemLocked(t) ==
  /\ pc[t] = "a_wait"
  /\ readerCount = 0
  /\ pc' = [pc EXCEPT ![t] = "a_body"]
  /\ UNCHANGED <<store, lock, call, searchVars, disk, exit>>

\* AddItemReplace that keeps the old record's metadata entries the new call
\* does not set.
AddItemReplaceKeepsMeta(t) ==
  /\ pc[t] = "a_body"
  /\ call[t].id \in DOMAIN IDMap
  /\ LET old == Records[IDMap[call[t].id] + 1].Metadata
         new == NewRecord(call[t])
         kept == {p \in old.kv : \A n \in new.Metadata.kv : n[1] # p[1]}
     IN  Records' = [Records EXCEPT ![IDMap[call[t].id] + 1] =
                       [new EXCEPT !.Metadata = MakeMap(new.Metadata.kv \cup kept)]]
  /\ writer' = None
  /\ pc' = [pc EXCEPT ![t] = "a_ret"]
  /\ call' = [call EXCEPT ![t].exists = TRUE]
  /\ UNCHANGED <<IDMap, readerCount, searchVars, disk, exit>>

\* if idx, exists := vs.IDMap[id]; exists { vs.Records[idx] = record }, the
\* deferred Unlock and the return.
AddItemReplace(t) ==
  /\ pc[t] = "a_body"
  /\ call[t].id \in DOMAIN IDMap
  /\ Records' = [Records EXCEPT ![IDMap[call[t].id] + 1] = NewRecord(call[t])]
  /\ writer' = None
  /\ pc' = [pc EXCEPT ![t] = "a_ret"]
  /\ call' = [call EXCEPT ![t].exists = TRUE]
  /\ UNCHANGED <<IDMap, readerCount, searchVars, disk, exit>>

\* AddItemRegister that maps the id one position too far.
AddItemRegisterOffByOne(t) ==
  /\ pc[t] = "a_body"
  /\ call[t].id \notin DOMAIN IDMap
  /\ IDMap' = MapSet(IDMap, call[t].id, Len(Records) + 1)
  /\ pc' = [pc EXCEPT ![t] = "a_append"]
  /\ UNCHANGED <<Records, lock, call, searchVars, disk, exit>>

\* else { vs.IDMap[id] = len(vs.Records) ...
AddItemRegister(t) ==
  /\ pc[t] = "a_body"
  /\ call[t].id \notin DOMAIN IDMap
  /\ IDMap' = MapSet(IDMap, call[t].id, Len(Records))
  /\ pc' = [pc EXCEPT ![t] = "a_append"]
  /\ UNCHANGED <<Records, lock, call, searchVars, disk, exit>>

\* ... vs.Records = append(vs.Records, record) }, the deferred Unlock and the
\* return.
AddItemAppend(t) ==
  /\ pc[t] = "a_append"
  /\ Records' = Append(Records, NewRecord(call[t]))
  /\ writer' = None
  /\ pc' = [pc EXCEPT ![t] = "a_ret"]
  /\ UNCHANGED <<IDMap, readerCount, call, searchVars, disk, exit>>

\* AddItem has returned and its caller goes on (the /add handler reads
\* len(db.Records) for its reply, holding no lock); the goroutine is free
\* for the next call.
AddItemDone(t) ==
  /\ pc[t] = "a_ret"
  /\ pc' = [pc EXCEPT ![t] = "idle"]
  /\ call' = [call EXCEPT ![t] = NoCall]
  /\ UNCHANGED <<store, lock, searchVars, disk, exit>>

\* ----------------------------------------------------------------- Search

Min(a, b) == IF a < b THEN a ELSE b

\* A chunk size that rounds down.
ChunkSizeFloor(n, numWorkers) == n \div numWorkers

\* chunkSize := (len(vs.Records) + numWorkers - 1) / numWorkers
ChunkSize(n, numWorkers) == (n + numWorkers - 1) \div numWorkers

\* The loop that starts the workers: worker i gets [i*chunkSize, end), and the
\* loop breaks at the first start >= len(vs.Records).
RECURSIVE ShardsFrom(_, _, _, _)
ShardsFrom(n, numWorkers, chunkSize, i) ==
  IF i >= numWorkers \/ i * chunkSize >= n THEN <<>>
  ELSE <<[s |-> i * chunkSize, e |-> Min(i * chunkSize + chunkSize, n)]>>
         \o ShardsFrom(n, numWorkers, chunkSize, i + 1)

Shards(n, numWorkers) == ShardsFrom(n, numWorkers, ChunkSize(n, numWorkers), 0)

\* PassesFilters with the namespace test left out.
PassesFiltersAnyNamespace(rec, c) ==
  ~(c.filterKey # "" /\ MapGet(rec.Metadata, c.filterKey) # c.filterVal)

\* The two pre-filters of the worker loop: TRUE when the record is scored.
PassesFilters(rec, c) ==
  /\ ~(c.namespace # "" /\ rec.Namespace # c.namespace)
  /\ ~(c.filterKey # "" /\ MapGet(rec.Metadata, c.filterKey) # c.filterVal)

\* The worker's loop for j := s; j < e; j++ over recs, from heap h.
RECURSIVE ScanShard(_, _, _, _, _)
ScanShard(recs, c, j, e, h) ==
  IF j >= e THEN [panic |-> FALSE, heap |-> h]
  ELSE IF ~PassesFilters(recs[j + 1], c) THEN ScanShard(recs, c, j + 1, e, h)
  ELSE LET score == DotProduct(c.q, recs[j + 1].Vector)
       IN  IF score.panic THEN [panic |-> TRUE, heap |-> h]
           ELSE LET o == Offer(h, SearchResult(recs[j + 1].ID, score.val), c.k)
                IN  IF o.panic THEN o ELSE ScanShard(recs, c, j + 1, e, o.heap)

\* MergeChunk that only fills finalHeap and never replaces its minimum: what
\* arrives first stays.
RECURSIVE MergeChunkFirstCome(_, _, _, _)
MergeChunkFirstCome(chunk, i, h, k) ==
  IF i > Len(chunk) THEN [panic |-> FALSE, heap |-> h]
  ELSE MergeChunkFirstCome(chunk, i + 1,
         IF Len(h) < k THEN HeapPush(h, chunk[i]) ELSE h, k)

\* The merge loop's body for one chunk: for _, res := range chunk.
RECURSIVE MergeChunk(_, _, _, _)
MergeChunk(chunk, i, h, k) ==
  IF i > Len(chunk) THEN [panic |-> FALSE, heap |-> h]
  ELSE LET o == Offer(h, chunk[i], k)
       IN  IF o.panic THEN o ELSE MergeChunk(chunk, i + 1, o.heap, k)

\* vs.RLock(), q := Normalize(query), and the loop that starts one worker per
\* shard (wg.Add(1) each) and the goroutine that closes the channel.  The
\* frame also keeps, as history, the records the Search sets out to scan.
SearchCall(t, query, k, filter, numWorkers) ==
  /\ Serving
  /\ pc[t] = "idle"
  /\ writer = None
  /\ readerCount' = readerCount + 1
  /\ call' = [call EXCEPT ![t] =
                [op |-> "Search", query |-> query, q |-> Normalize(query), k |-> k,
                 namespace |-> filter[1], filterKey |-> filter[2],
                 filterVal |-> filter[3], numWorkers |-> numWorkers,
                 snapshot |-> Records]]
  /\ LET sh == Shards(Len(Records), numWorkers)
     IN  /\ shards' = [shards EXCEPT ![t] = sh]
         /\ wpc' = [wpc EXCEPT ![t] = [i \in 1..Len(sh) |-> "run"]]
         /\ wg' = [wg EXCEPT ![t] = Len(sh)]
  /\ workChan' = [workChan EXCEPT ![t] = <<>>]
  /\ chanClosed' = [chanClosed EXCEPT ![t] = FALSE]
  /\ finalHeap' = [finalHeap EXCEPT ![t] = <<>>]
  /\ finalResults' = [finalResults EXCEPT ![t] = <<>>]
  /\ pc' = [pc EXCEPT ![t] = "s_merge"]
  /\ UNCHANGED <<store, writer, disk, exit>>

\* One shard worker, start to end: scan the shard into its own heap, pop the
\* heap into results, send them on workChan (which has room for numWorkers
\* sends), and wg.Done().
WorkerRun(t, w) ==
  /\ pc[t] = "s_merge"
  /\ w \in 1..Len(wpc[t])
  /\ wpc[t][w] = "run"
  /\ Len(workChan[t]) < call[t].numWorkers
  /\ LET r == ScanShard(Records, call[t], shards[t][w].s, shards[t][w].e, <<>>)
     IN  /\ ~r.panic
         /\ workChan' = [workChan EXCEPT ![t] = Append(@, Drain(r.heap))]
  /\ wpc' = [wpc EXCEPT ![t][w] = "done"]
  /\ wg' = [wg EXCEPT ![t] = @ - 1]
  /\ UNCHANGED <<store, lock, pc, call, shards, chanClosed, finalHeap,
                 finalResults, disk, exit>>

\* A shard worker whose scan indexes out of range: the goroutine panics and
\* the run-time ends the process.
WorkerPanic(t, w) ==
  /\ pc[t] = "s_merge"
  /\ w \in 1..Len(wpc[t])
  /\ wpc[t][w] = "run"
  /\ ScanShard(Records, call[t], shards[t][w].s, shards[t][w].e, <<>>).panic
  /\ ProcessDies(ExitOf("panic", "Search", call[t].k))

\* CloseChan that does not wait for the workers.
CloseChanEarly(t) ==
  /\ pc[t] = "s_merge"
  /\ ~chanClosed[t]
  /\ chanClosed' = [chanClosed EXCEPT ![t] = TRUE]
  /\ UNCHANGED <<store, lock, pc, call, wpc, shards, wg, workChan, finalHeap,
                 finalResults, disk, exit>>

\* go func() { wg.Wait(); close(workChan) }()
CloseChan(t) ==
  /\ pc[t] = "s_merge"
  /\ wg[t] = 0
  /\ ~chanClosed[t]
  /\ chanClosed' = [chanClosed EXCEPT ![t] = TRUE]
  /\ UNCHANGED <<store, lock, pc, call, wpc, shards, wg, workChan, finalHeap,
                 finalResults, disk, exit>>

\* for chunk := range workChan { ... }: receive one chunk and offer each of
\* its results to finalHeap.
MergeRecv(t) ==
  /\ pc[t] = "s_merge"
  /\ Len(workChan[t]) > 0
  /\ LET m == MergeChunk(Head(workChan[t]), 1, finalHeap[t], call[t].k)
     IN  /\ ~m.panic
         /\ finalHeap' = [finalHeap EXCEPT ![t] = m.heap]
  /\ workChan' = [workChan EXCEPT ![t] = Tail(@)]
  /\ UNCHANGED <<store, lock, pc, call, wpc, shards, wg, chanClosed,
                 finalResults, disk, exit>>

\* The range loop ends on the closed, empty channel; finalHeap is popped into
\* finalResults, Search returns it and the deferred RUnlock runs.
SearchReturn(t) ==
  /\ pc[t] = "s_merge"
  /\ Len(workChan[t]) = 0
  /\ chanClosed[t]
  /\ finalResults' = [finalResults EXCEPT ![t] = Drain(finalHeap[t])]
  /\ readerCount' = readerCount - 1
  /\ pc' = [pc EXCEPT ![t] = "s_ret"]
  /\ UNCHANGED <<store, writer, call, wpc, shards, wg, workChan, chanClosed,
                 finalHeap, disk, exit>>

\* The caller has taken the results; the goroutine is free for the next call.
SearchDone(t) ==
  /\ pc[t] = "s_ret"
  /\ pc' = [pc EXCEPT ![t] = "idle"]
  /\ call' = [call EXCEPT ![t] = NoCall]
  /\ wpc' = [wpc EXCEPT ![t] = <<>>]
  /\ shards' = [shards EXCEPT ![t] = <<>>]
  /\ finalHeap' = [finalHeap EXCEPT ![t] = <<>>]
  /\ finalResults' = [finalResults EXCEPT ![t] = <<>>]
  /\ chanClosed' = [chanClosed EXCEPT ![t] = FALSE]
  /\ UNCHANGED <<store, lock, wg, workChan, disk, exit>>

\* The /query handler after Search: db.RLock() for the metadata join.
JoinLock(t) ==
  /\ pc[t] = "s_ret"
  /\ writer = None
  /\ readerCount' = readerCount + 1
  /\ pc' = [pc EXCEPT ![t] = "j_body"]
  /\ UNCHANGED <<store, writer, call, searchVars, disk, exit>>

\* The join: each result gets db.Records[db.IDMap[res.ID]].Metadata; then
\* db.RUnlock().  The reply is ready.
JoinRespond(t) ==
  /\ pc[t] = "j_body"
  /\ call' = [call EXCEPT ![t] =
                [op |-> "query", snapshot |-> call[t].snapshot,
                 response |-> [r \in 1..Len(finalResults[t]) |->
                    [ID |-> finalResults[t][r].ID,
                     Score |-> finalResults[t][r].Score,
                     Metadata |-> Records[IDMap[finalResults[t][r].ID] + 1].Metadata]]]]
  /\ readerCount' = readerCount - 1
  /\ pc' = [pc EXCEPT ![t] = "q_ret"]
  /\ UNCHANGED <<store, writer, searchVars, disk, exit>>

\* c.JSON(200, ...): the reply is sent; the goroutine is free for the next
\* request.
QueryDone(t) ==
  /\ pc[t] = "q_ret"
  /\ pc' = [pc EXCEPT ![t] = "idle"]
  /\ call' = [call EXCEPT ![t] = NoCall]
  /\ wpc' = [wpc EXCEPT ![t] = <<>>]
  /\ shards' = [shards EXCEPT ![t] = <<>>]
  /\ finalHeap' = [finalHeap EXCEPT ![t] = <<>>]
  /\ finalResults' = [finalResults EXCEPT ![t] = <<>>]
  /\ chanClosed' = [chanClosed EXCEPT ![t] = FALSE]
  /\ UNCHANGED <<store, lock, wg, workChan, disk, exit>>

\* ------------------------------------------------------------ persistence

\* encoding/json's form of one Record.  "quantized" is omitempty: the key is
\* written only for a slice of length > 0.  A nil map is written as null, a
\* non-nil map as an object.  vectorIsText marks an object whose "vector" is
\* a JSON string, not an array: Marshal never writes one, a file written by
\* something else may hold one.
MarshalRecord(rec) ==
  [id |-> rec.ID, vector |-> rec.Vector, vectorIsText |-> FALSE,
   hasQuantized |-> Len(rec.Quantized) > 0, quantized |-> rec.Quantized,
   metadataNull |-> rec.Metadata.nil, metadata |-> rec.Metadata.kv,
   namespace |-> rec.Namespace]

\* json.Marshal(vs.Records): the array of the records' objects.
Marshal(recs) == [i \in 1..Len(recs) |-> MarshalRecord(recs[i])]

\* The zero Record a grown slice element starts as.
ZeroRecord == MakeRecord("", <<>>, <<>>, NilMap, "")

\* Decoding a JSON object into a map: a nil map is allocated, an existing one
\* is reused and keeps the entries the object does not overwrite.
DecodeMap(old, kv) ==
  MakeMap(kv \cup {p \in old.kv : \A n \in kv : n[1] # p[1]})

\* DecodeRecord that does not read the "namespace" key.
DecodeRecordNoNamespace(old, j) ==
  MakeRecord(j.id, IF j.vectorIsText THEN old.Vector ELSE j.vector,
             IF j.hasQuantized THEN j.quantized ELSE old.Quantized,
             IF j.metadataNull THEN NilMap ELSE DecodeMap(old.Metadata, j.metadata),
             old.Namespace)

\* json.Unmarshal of one object into the slice element old: each key sets its
\* field, an absent key leaves the field, null makes the map nil, and a value
\* of the wrong type is skipped (the decoder notes the error and goes on).
DecodeRecord(old, j) ==
  MakeRecord(j.id, IF j.vectorIsText THEN old.Vector ELSE j.vector,
             IF j.hasQuantized THEN j.quantized ELSE old.Quantized,
             IF j.metadataNull THEN NilMap ELSE DecodeMap(old.Metadata, j.metadata),
             j.namespace)

\* json.Unmarshal(data, &vs.Records): element i is decoded into the slice's
\* element i when it has one, else into a zero Record; the slice ends with the
\* length of the array.
Unmarshal(old, data) ==
  [i \in 1..Len(data) |->
     DecodeRecord(IF i <= Len(old) THEN old[i] ELSE ZeroRecord, data[i])]

\* vs.IDMap = make(map[string]int); for i, rec := range vs.Records {
\* vs.IDMap[rec.ID] = i }: the last position of an id wins.
RebuildIDMap(recs) ==
  [id \in {recs[i].ID : i \in 1..Len(recs)} |->
     (CHOOSE i \in 1..Len(recs) :
        recs[i].ID = id /\ \A j \in (i + 1)..Len(recs) : recs[j].ID # id) - 1]

\* A file on disk: the records' objects written so far, and whether the
\* array was written to its closing bracket (only then does it parse).
FileOf(objs, closed) == [exists |-> TRUE, recs |-> objs, closed |-> closed]

\* db.Save("vectors.json") on the shutdown signal: vs.RLock() and
\* json.Marshal(vs.Records).
SaveCall ==
  /\ pc["main"] = "serving"
  /\ writer = None
  /\ readerCount' = readerCount + 1
  /\ call' = [call EXCEPT !["main"] =
                [op |-> "Save", data |-> Marshal(Records), records |-> Records]]
  /\ pc' = [pc EXCEPT !["main"] = "sv_open"]
  /\ UNCHANGED <<store, writer, searchVars, disk, exit>>

\* os.WriteFile, first half: open with O_WRONLY|O_CREATE|O_TRUNC.  The file
\* is now empty.
SaveOpen ==
  /\ pc["main"] = "sv_open"
  /\ file' = FileOf(<<>>, FALSE)
  /\ saved' = <<>>
  /\ pc' = [pc EXCEPT !["main"] = "sv_write"]
  /\ UNCHANGED <<store, lock, call, searchVars, exit>>

\* os.WriteFile, second half: write all of data and close; then the deferred
\* RUnlock.  main goes on to srv.Shutdown.
SaveWrite ==
  /\ pc["main"] = "sv_write"
  /\ file' = FileOf(call["main"].data, TRUE)
  /\ saved' = call["main"].records
  /\ readerCount' = readerCount - 1
  /\ call' = [call EXCEPT !["main"] = NoCall]
  /\ pc' = [pc EXCEPT !["main"] = "stopping"]
  /\ UNCHANGED <<store, writer, searchVars, exit>>

\* os.WriteFile, second half, failing: the write stops with an error after n
\* objects; Save returns the error, which main drops.
SaveWriteFails(n) ==
  /\ pc["main"] = "sv_write"
  /\ n \in 0..Len(call["main"].data)
  /\ file' = FileOf(SubSeq(call["main"].data, 1, n), FALSE)
  /\ readerCount' = readerCount - 1
  /\ call' = [call EXCEPT !["main"] = NoCall]
  /\ pc' = [pc EXCEPT !["main"] = "stopping"]
  /\ UNCHANGED <<store, writer, saved, searchVars, exit>>

\* func main up to db.Load: db = NewVectorStore(), and Load's vs.Lock().
Boot ==
  /\ pc["main"] = "down"
  /\ writer' = "main"
  /\ call' = [call EXCEPT !["main"] = [op |-> "Load", err |-> "pending"]]
  /\ pc' = [pc EXCEPT !["main"] = "ld_read"]
  /\ exit' = NoExit
  /\ UNCHANGED <<store, readerCount, searchVars, disk>>

\* os.ReadFile fails (no such file): Load returns the error.
LoadNoFile ==
  /\ pc["main"] = "ld_read"
  /\ ~file.exists
  /\ writer' = None
  /\ call' = [call EXCEPT !["main"].err = "read"]
  /\ pc' = [pc EXCEPT !["main"] = "loaded"]
  /\ UNCHANGED <<store, readerCount, searchVars, disk, exit>>

\* json.Unmarshal rejects data that is not a complete JSON value before it
\* decodes anything: Load returns the error.
LoadSyntaxError ==
  /\ pc["main"] = "ld_read"
  /\ file.exists /\ ~file.closed
  /\ writer' = None
  /\ call' = [call EXCEPT !["main"].err = "syntax"]
  /\ pc' = [pc EXCEPT !["main"] = "loaded"]
  /\ UNCHANGED <<store, readerCount, searchVars, disk, exit>>

\* The JSON value has a member of the wrong type for its field.
TypeError(data) == \E i \in 1..Len(data) : data[i].vectorIsText

\* json.Unmarshal(data, &vs.Records) fails with an UnmarshalTypeError: it has
\* decoded everything else into vs.Records by then.  Load returns the error
\* before it rebuilds IDMap.
LoadTypeError ==
  /\ pc["main"] = "ld_read"
  /\ file.exists /\ file.closed /\ TypeError(file.recs)
  /\ Records' = Unmarshal(Records, file.recs)
  /\ writer' = None
  /\ call' = [call EXCEPT !["main"].err = "type"]
  /\ pc' = [pc EXCEPT !["main"] = "loaded"]
  /\ UNCHANGED <<IDMap, readerCount, searchVars, disk, exit>>

\* json.Unmarshal(data, &vs.Records) succeeds.
LoadDecode ==
  /\ pc["main"] = "ld_read"
  /\ file.exists /\ file.closed /\ ~TypeError(file.recs)
  /\ Records' = Unmarshal(Records, file.recs)
  /\ pc' = [pc EXCEPT !["main"] = "ld_index"]
  /\ UNCHANGED <<IDMap, lock, call, searchVars, disk, exit>>

\* Load rebuilds IDMap from the loaded records and returns nil.
LoadIndex ==
  /\ pc["main"] = "ld_index"
  /\ IDMap' = RebuildIDMap(Records)
  /\ writer' = None
  /\ call' = [call EXCEPT !["main"].err = "nil"]
  /\ pc' = [pc EXCEPT !["main"] = "loaded"]
  /\ UNCHANGED <<Records, readerCount, searchVars, disk, exit>>

\* go func() { srv.ListenAndServe() }(): requests are served from here on;
\* main waits for a signal.
Listen ==
  /\ pc["main"] = "loaded"
  /\ call' = [call EXCEPT !["main"] = NoCall]
  /\ pc' = [pc EXCEPT !["main"] = "serving"]
  /\ UNCHANGED <<store, lock, searchVars, disk, exit>>

\* srv.Shutdown(ctx) returns (every handler is done, or the 5 s are over) and
\* main returns: the process ends.
Shutdown ==
  /\ pc["main"] = "stopping"
  /\ ProcessDies(ExitOf("exit", "", 0))

\* The process is killed (SIGKILL, power loss) at any point of its life.
Kill ==
  /\ pc["main"] # "down"
  /\ ProcessDies(ExitOf("kill", "", 0))

\* ------------------------------------------- the single-client specification

\* One goroutine calls AddItem and Search, one call after the other, on a
\* store that starts empty; new ids are taken in the order of IdNames.
NextId == IF Len(Records) < NumIds THEN {IdNames[Len(Records) + 1]} ELSE {}

ClientInit ==
  /\ pc = [t \in {"main", "t1"} |-> IF t = "main" THEN "serving" ELSE "idle"]
  /\ FreshMemory({"main", "t1"})
  /\ file = NoFile
  /\ saved = <<>>
  /\ exit = NoExit

ClientNext ==
  \/ \E id \in DOMAIN IDMap \cup NextId, item \in ItemInputs :
       AddItemCall("t1", id, item)
  \/ AddItemLocked("t1")
  \/ AddItemReplace("t1")
  \/ AddItemRegister("t1")
  \/ AddItemAppend("t1")
  \/ AddItemDone("t1")
  \/ \E query \in QueryVectors, k \in -1..MaxK, filter \in Filters,
        numWorkers \in 1..MaxWorkers :
       SearchCall("t1", query, k, filter, numWorkers)
  \/ \E w \in 1..MaxWorkers : WorkerRun("t1", w)
  \/ \E w \in 1..MaxWorkers : WorkerPanic("t1", w)
  \/ CloseChan("t1")
  \/ MergeRecv("t1")
  \/ SearchReturn("t1")
  \/ SearchDone("t1")

SearchSpec == ClientInit /\ [][ClientNext]_vars

\* ------------------------------------------------- the server specification

\* The requests the server specification's handlers make.
ServerItems ==
  {<<<<1, 0>>, MakeMap({<<"tag", "x">>}), "ns1">>, <<<<2, 1>>, NilMap, "ns1">>}

\* The k of the server specification's Search calls.
ServerKs == {-1, 1}

Init ==
  /\ pc = [t \in {"main", "h1", "h2"} |-> IF t = "main" THEN "down" ELSE "idle"]
  /\ FreshMemory({"main", "h1", "h2"})
  /\ file = NoFile
  /\ saved = <<>>
  /\ exit = NoExit

Next ==
  \/ Boot
  \/ LoadNoFile
  \/ LoadSyntaxError
  \/ LoadDecode
  \/ LoadIndex
  \/ Listen
  \/ SaveCall
  \/ SaveOpen
  \/ SaveWrite
  \/ \E n \in 0..Cardinality(ServerIds) : SaveWriteFails(n)
  \/ Shutdown
  \/ Kill
  \/ \E t \in Handlers, id \in ServerIds, item \in ServerItems :
       AddItemCall(t, id, item)
  \/ \E t \in Handlers : AddItemLocked(t)
  \/ \E t \in Handlers : AddItemReplace(t)
  \/ \E t \in Handlers : AddItemRegister(t)
  \/ \E t \in Handlers : AddItemAppend(t)
  \/ \E t \in Handlers : AddItemDone(t)
  \/ \E t \in Handlers, query \in QueryVectors, k \in ServerKs :
       SearchCall(t, query, k, <<"ns1", "", "">>, MaxWorkers)
  \/ \E t \in Handlers, w \in 1..MaxWorkers : WorkerRun(t, w)
  \/ \E t \in Handlers, w \in 1..MaxWorkers : WorkerPanic(t, w)
  \/ \E t \in Handlers : CloseChan(t)
  \/ \E t \in Handlers : MergeRecv(t)
  \/ \E t \in Handlers : SearchReturn(t)
  \/ \E t \in Handlers : JoinLock(t)
  \/ \E t \in Handlers : JoinRespond(t)
  \/ \E t \in Handlers : QueryDone(t)

Spec == Init /\ [][Next]_vars

\* ------------------------------------------------- claims about one Search

\* Search has returned to goroutine t, which still holds the arguments.
Returned(t) == pc[t] = "s_ret"

\* The positions (1-based) of the records the query's filters let through.
Passing(t) == {i \in 1..Len(Records) : PassesFilters(Records[i], call[t])}

\* The cosine score of the record at position i for t's query.
ScoreAt(t, i) == DotProduct(call[t].q, Records[i].Vector).val

\* C2: for k > 0, Search returns the global top-k of the records that pass the
\* filters: min(k, passing) results, each the id and score of a passing
\* record, no record twice, and no passing record left out scores higher
\* than a returned one.
C2_GlobalTopK ==
  \A t \in Handlers :
    (Returned(t) /\ call[t].k > 0) =>
      LET res == finalResults[t]
      IN  /\ Len(res) = Min(call[t].k, Cardinality(Passing(t)))
          /\ \A r \in 1..Len(res) :
               \E i \in Passing(t) :
                 Records[i].ID = res[r].ID /\ ScoreAt(t, i) = res[r].Score
          /\ \A r1, r2 \in 1..Len(res) : r1 # r2 => res[r1].ID # res[r2].ID
          /\ \A i \in Passing(t) :
               (\A r \in 1..Len(res) : res[r].ID # Records[i].ID) =>
                 \A r \in 1..Len(res) : ScoreAt(t, i) <= res[r].Score

\* A two-shard search with k = 1 whose single result lies in the second
\* shard and beats a passing record of the first shard.
C2_Witness ==
  \E t \in Handlers :
    /\ Returned(t) /\ call[t].k = 1 /\ Len(shards[t]) = 2
    /\ Len(finalResults[t]) = 1
    /\ \E i \in Passing(t), j \in Passing(t) :
         /\ i <= shards[t][1].e /\ j > shards[t][2].s
         /\ Records[j].ID = finalResults[t][1].ID
         /\ ScoreAt(t, j) > ScoreAt(t, i)

\* C3: for k > 0 the returned list has at most k entries and its scores never
\* increase from one entry to the next.
C3_BoundedDescending ==
  \A t \in Handlers :
    (Returned(t) /\ call[t].k > 0) =>
      /\ Len(finalResults[t]) <= call[t].k
      /\ \A r \in 1..(Len(finalResults[t]) - 1) :
           finalResults[t][r].Score >= finalResults[t][r + 1].Score

\* A returned list of two entries with two different scores.
C3_Witness ==
  \E t \in Handlers :
    /\ Returned(t) /\ call[t].k = 2 /\ Len(finalResults[t]) = 2
    /\ finalResults[t][1].Score > finalResults[t][2].Score

\* The record a result names.
RecordOf(id) == Records[IDMap[id] + 1]

\* C4 as claimed: every returned record has the query's namespace when one
\* is given, and, when a filter key is given, holds that key with the
\* filter value (a record without the key is never returned).
C4_Claimed ==
  \A t \in Handlers :
    Returned(t) =>
      \A r \in 1..Len(finalResults[t]) :
        LET rec == RecordOf(finalResults[t][r].ID)
        IN  /\ call[t].namespace # "" => rec.Namespace = call[t].namespace
            /\ call[t].filterKey # "" =>
                 <<call[t].filterKey, call[t].filterVal>> \in rec.Metadata.kv

\* C4 as amended: every returned record has the query's namespace when one
\* is given, and, when a filter key is given, either holds that key with the
\* filter value or lacks the key while the filter value is the empty string.
C4_FiltersHold ==
  \A t \in Handlers :
    Returned(t) =>
      \A r \in 1..Len(finalResults[t]) :
        LET rec == RecordOf(finalResults[t][r].ID)
        IN  /\ call[t].namespace # "" => rec.Namespace = call[t].namespace
            /\ call[t].filterKey # "" =>
                 \/ <<call[t].filterKey, call[t].filterVal>> \in rec.Metadata.kv
                 \/ /\ call[t].filterVal = ""
                    /\ \A p \in rec.Metadata.kv : p[1] # call[t].filterKey

\* A search with a filter key and a non-empty filter value that returns some
\* records while the store holds records the filters reject.
C4_Witness ==
  \E t \in Handlers :
    /\ Returned(t) /\ Len(finalResults[t]) > 0
    /\ call[t].filterKey # ""
    /\ call[t].filterVal # ""
    /\ Cardinality(Passing(t)) < Len(Records)

\* C5 as claimed: a Search with k <= 0 returns an empty list and never ends
\* in a panic.
C5_Claimed ==
  /\ \A t \in Handlers :
       (Returned(t) /\ call[t].k <= 0) => finalResults[t] = <<>>
  /\ ~(exit.cause = "panic" /\ exit.op = "Search" /\ exit.k <= 0)

\* The passing records of t's query have pairwise different scores.
DistinctScores(t) ==
  \A i, j \in Passing(t) : i # j => ScoreAt(t, i) # ScoreAt(t, j)

\* How many passing records score higher than the record at position i.
Rank(t, i) == Cardinality({j \in Passing(t) : ScoreAt(t, j) > ScoreAt(t, i)})

\* The one list a search over pairwise different scores can return: the
\* passing records by falling score, cut to k.
RankedList(t) ==
  [r \in 1..Min(call[t].k, Cardinality(Passing(t))) |->
     LET i == CHOOSE i \in Passing(t) : Rank(t, i) = r - 1
     IN  SearchResult(Records[i].ID, ScoreAt(t, i))]

\* C8: when the passing records have pairwise different scores, the returned
\* list is a function of the store and the arguments alone, whatever the
\* order in which the workers ran and their results arrived.
C8_ScheduleIndependent ==
  \A t \in Handlers :
    (Returned(t) /\ call[t].k > 0 /\ DistinctScores(t)) =>
      finalResults[t] = RankedList(t)

\* A search over two shards, both with passing records of different scores,
\* that returned two results.
C8_Witness ==
  \E t \in Handlers :
    /\ Returned(t) /\ call[t].k = 2 /\ DistinctScores(t)
    /\ Len(shards[t]) = 2 /\ Len(finalResults[t]) = 2
    /\ \E i, j \in Passing(t) : i <= shards[t][1].e /\ j > shards[t][2].s

\* ---------------------------------------------- claims about the store

\* Goroutine t holds the lock exclusively (AddItem or Load past its Lock).
HoldsExclusive(t) == pc[t] \in {"a_body", "a_append", "ld_read", "ld_index"}

\* Goroutine t holds the lock shared (Search, the /query join or Save past
\* its RLock).
HoldsShared(t) == pc[t] \in {"s_merge", "j_body", "sv_open", "sv_write"}

\* IDMap maps every id to a valid position holding that id, every position's
\* id maps back to the position, and no two positions hold the same id.
Bijection ==
  /\ \A id \in DOMAIN IDMap :
       /\ IDMap[id] \in 0..(Len(Records) - 1)
       /\ Records[IDMap[id] + 1].ID = id
  /\ \A i \in 1..Len(Records) :
       /\ Records[i].ID \in DOMAIN IDMap
       /\ IDMap[Records[i].ID] = i - 1
  /\ \A i, j \in 1..Len(Records) : i # j => Records[i].ID # Records[j].ID

\* C1: whenever no AddItem (or Load) is inside its critical section, whatever
\* calls have run and however they interleaved, IDMap is a bijection onto the
\* positions of Records.
C1_IDMapBijection == (\A t \in Threads : ~HoldsExclusive(t)) => Bijection

\* Two records are stored, one AddItem has just returned after replacing a
\* record, and another AddItem waits for the lock.
C1_Witness ==
  /\ \A t \in Threads : ~HoldsExclusive(t)
  /\ Len(Records) = 2
  /\ \E t1, t2 \in Handlers :
       pc[t1] = "a_ret" /\ call[t1].exists /\ pc[t2] = "a_wait"

\* No exclusive holder coexists with any other holder.
Exclusion ==
  \A t1, t2 \in Threads :
    (t1 # t2 /\ HoldsExclusive(t1)) => (~HoldsExclusive(t2) /\ ~HoldsShared(t2))

\* A step that starts inside a Search and does not end the process leaves
\* Records and IDMap as they are.
StableUnderSearch ==
  (\E t \in Handlers : pc[t] = "s_merge" /\ pc'[t] \in {"s_merge", "s_ret"})
    => UNCHANGED <<Records, IDMap>>

\* C6: from a Search's RLock to its return no step changes Records or IDMap,
\* so all its workers read one record sequence; and an exclusive holder
\* (AddItem, Load) never coexists with a shared holder (Search, Save) or with
\* another exclusive holder.
C6_SearchSnapshot == []Exclusion /\ [][StableUnderSearch]_vars

\* A Search with one worker done and one still to run, while an AddItem waits
\* for the lock.
C6_Witness ==
  \E t1, t2 \in Handlers :
    /\ pc[t1] = "s_merge" /\ Len(wpc[t1]) = 2
    /\ wpc[t1][1] = "done" /\ wpc[t1][2] = "run"
    /\ pc[t2] = "a_wait"

\* Record rec is the one call c asks AddItem to store.
StoresCall(rec, c) ==
  /\ rec.ID = c.id
  /\ rec.Vector = Normalize(c.vector)
  /\ rec.Metadata = c.meta
  /\ rec.Namespace = c.namespace

\* The step of AddItem for an id already in the store: same length, same
\* mapping, every other record untouched, the record at the id's position
\* replaced whole by the call's.
ReplaceStep(t) ==
  (pc[t] = "a_body" /\ pc'[t] = "a_ret") =>
    /\ call[t].id \in DOMAIN IDMap
    /\ Len(Records') = Len(Records)
    /\ IDMap' = IDMap
    /\ \A i \in 1..Len(Records) :
         i # IDMap[call[t].id] + 1 => Records'[i] = Records[i]
    /\ StoresCall(Records'[IDMap[call[t].id] + 1], call[t])

\* The two steps of AddItem for a new id: the id is mapped to len(Records)
\* and no other mapping changes; then exactly one record, the call's, is
\* appended at that position and no existing record changes.
AppendSteps(t) ==
  /\ (pc[t] = "a_body" /\ pc'[t] = "a_append") =>
       /\ call[t].id \notin DOMAIN IDMap
       /\ Records' = Records
       /\ DOMAIN IDMap' = DOMAIN IDMap \cup {call[t].id}
       /\ IDMap'[call[t].id] = Len(Records)
       /\ \A id \in DOMAIN IDMap : IDMap'[id] = IDMap[id]
  /\ (pc[t] = "a_append" /\ pc'[t] = "a_ret") =>
       /\ IDMap' = IDMap
       /\ IDMap[call[t].id] = Len(Records)
       /\ Len(Records') = Len(Records) + 1
       /\ \A i \in 1..Len(Records) : Records'[i] = Records[i]
       /\ StoresCall(Records'[Len(Records) + 1], call[t])

\* C7: AddItem of a stored id keeps the length, every position and every
\* other record and replaces the whole record at the id's position; AddItem of
\* a new id appends one record at position len(Records) and changes no
\* existing record or mapping.
C7_UpsertFrame == [][\A t \in Handlers : ReplaceStep(t) /\ AppendSteps(t)]_vars

\* An AddItem that replaced a record has returned; the store holds two
\* records and the call's record stands at the id's position.
C7_Witness ==
  \E t \in Handlers :
    /\ pc[t] = "a_ret" /\ call[t].exists
    /\ Len(Records) = 2
    /\ call[t].id \in DOMAIN IDMap
    /\ StoresCall(Records[IDMap[call[t].id] + 1], call[t])

\* The (id, vector, metadata, namespace) tuples of a record sequence.
Tuples(recs) ==
  [i \in 1..Len(recs) |->
     <<recs[i].ID, recs[i].Vector, recs[i].Metadata, recs[i].Namespace>>]

\* C9: a Load that succeeds yields the tuples of the records the Save that
\* wrote the file serialized, in the same order, and an IDMap that is a
\* bijection onto them.
C9_RoundTrip ==
  (pc["main"] = "loaded" /\ call["main"].err = "nil") =>
    (Tuples(Records) = Tuples(saved) /\ Bijection)

\* A Load has brought back two records, one with a nil metadata map and one
\* with entries.
C9_Witness ==
  /\ pc["main"] = "loaded" /\ call["main"].err = "nil"
  /\ Len(Records) = 2
  /\ \E i, j \in 1..2 : Records[i].Metadata.nil /\ Records[j].Metadata.kv # {}

\* C10 as claimed: the file on disk is never truncated or partial: when it
\* exists it holds a complete snapshot.
C10_Claimed == file.exists => file.closed

\* ------------------------------------------------ the boot specification

\* The vectors.json the process may find when it starts: none, one cut short,
\* one that Save wrote, and two written by hand whose first or second
\* object gives "vector" as a string.
BootObjects == Marshal(<<NewRecord([id |-> IdNames[1], vector |-> <<1, 0>>,
                                   meta |-> MakeMap({<<"tag", "x">>}),
                                   namespace |-> "ns1"]),
                         NewRecord([id |-> IdNames[2], vector |-> <<2, 1>>,
                                   meta |-> NilMap, namespace |-> "ns1"])>>)

BootFiles ==
  {NoFile, FileOf(SubSeq(BootObjects, 1, 1), FALSE), FileOf(BootObjects, TRUE)}
  \cup {FileOf([BootObjects EXCEPT ![i].vectorIsText = TRUE], TRUE) : i \in 1..2}

BootInit ==
  /\ pc = [t \in {"main", "h1", "h2"} |-> IF t = "main" THEN "down" ELSE "idle"]
  /\ FreshMemory({"main", "h1", "h2"})
  /\ file \in BootFiles
  /\ saved = <<>>
  /\ exit = NoExit

\* The process boots on the file it finds and then serves /add requests.
BootNext ==
  \/ Boot
  \/ LoadNoFile
  \/ LoadSyntaxError
  \/ LoadTypeError
  \/ LoadDecode
  \/ LoadIndex
  \/ Listen
  \/ \E t \in Handlers, id \in ServerIds, item \in ServerItems :
       AddItemCall(t, id, item)
  \/ \E t \in Handlers : AddItemLocked(t)
  \/ \E t \in Handlers : AddItemReplace(t)
  \/ \E t \in Handlers : AddItemRegister(t)
  \/ \E t \in Handlers : AddItemAppend(t)
  \/ \E t \in Handlers : AddItemDone(t)

BootSpec == BootInit /\ [][BootNext]_vars

\* C11 as claimed: a Load that returned an error has left Records and IDMap
\* as NewVectorStore made them, and whenever nobody holds the lock
\* exclusively IDMap is a bijection onto the positions of Records (so no id
\* is stored twice).
C11_Claimed ==
  /\ (pc["main"] = "loaded" /\ call["main"].err # "nil") =>
       (Records = <<>> /\ IDMap = EmptyIDMap)
  /\ ((\A t \in Threads : ~HoldsExclusive(t)) => Bijection)

\* C12 as claimed: no handler stands at its read of len(db.Records), which
\* the /add handler makes after AddItem has returned and released the lock,
\* while another goroutine is inside an exclusive critical section writing
\* Records and IDMap.
C12_Claimed ==
  \A t \in Handlers :
    pc[t] = "a_ret" => \A u \in Threads : ~HoldsExclusive(u)

\* ------------------------------------------- the functions specification

\* One goroutine calls the package's functions, one call after the other,
\* and keeps each result in its frame.

\* The vectors given to Quantize: one component, in steps of 1/Scale.
QuantizeInputs == {<<x>> : x \in (-MaxAbs * Scale)..(MaxAbs * Scale)}

QuantizeCall(t, v) ==
  /\ pc[t] = "idle"
  /\ call' = [call EXCEPT ![t] = [op |-> "Quantize", v |-> v, out |-> Quantize(v)]]
  /\ pc' = [pc EXCEPT ![t] = "f_ret"]
  /\ UNCHANGED <<store, lock, searchVars, disk, exit>>

\* The function has returned; its caller goes on to the next call.
FunctionDone(t) ==
  /\ pc[t] = "f_ret"
  /\ call' = [call EXCEPT ![t] = NoCall]
  /\ pc' = [pc EXCEPT ![t] = "idle"]
  /\ UNCHANGED <<store, lock, searchVars, disk, exit>>

\* The partition Search computes for a store of n records on numWorkers CPUs.
PartitionCall(t, n, numWorkers) ==
  /\ pc[t] = "idle"
  /\ call' = [call EXCEPT ![t] = [op |-> "Partition", n |-> n,
                                  numWorkers |-> numWorkers,
                                  out |-> Shards(n, numWorkers)]]
  /\ pc' = [pc EXCEPT ![t] = "f_ret"]
  /\ UNCHANGED <<store, lock, searchVars, disk, exit>>

\* The pairs of equal-length vectors given to DotProduct: a has components 1
\* and 2; b weighs position i with 3^(i-1), or with -i.
RECURSIVE Pow3(_)
Pow3(n) == IF n = 0 THEN 1 ELSE 3 * Pow3(n - 1)

DotInputs ==
  UNION {[1..n -> {1, 2}] \X {[i \in 1..n |-> Pow3(i - 1)], [i \in 1..n |-> -i]} :
           n \in 0..MaxLen}

DotProductCall(t, a, b) ==
  /\ pc[t] = "idle"
  /\ call' = [call EXCEPT ![t] = [op |-> "DotProduct", a |-> a, b |-> b,
                                  out |-> DotProduct(a, b)]]
  /\ pc' = [pc EXCEPT ![t] = "f_ret"]
  /\ UNCHANGED <<store, lock, searchVars, disk, exit>>

FunctionsNext ==
  \/ \E v \in QuantizeInputs : QuantizeCall("t1", v)
  \/ \E ab \in DotInputs : DotProductCall("t1", ab[1], ab[2])
  \/ \E n \in 0..MaxRecords, numWorkers \in 1..MaxCPUs :
       PartitionCall("t1", n, numWorkers)
  \/ FunctionDone("t1")

FunctionsSpec == ClientInit /\ [][FunctionsNext]_vars

\* C13 as claimed: every component Quantize returns lies in -128..127, equals
\* x*127 truncated when x is inside (-1, 1), and is the end of the range (127,
\* or -127 or -128) when x is at or beyond +1 or -1.
C13_Claimed ==
  \A t \in Handlers :
    (pc[t] = "f_ret" /\ call[t].op = "Quantize") =>
      \A i \in 1..Len(call[t].v) :
        LET x == call[t].v[i]
            y == call[t].out[i]
        IN  /\ y \in -128..127
            /\ (x > -Scale /\ x < Scale) => y = TruncDiv(x * 127, Scale)
            /\ x >= Scale => y = 127
            /\ x <= -Scale => y \in {-128, -127}

\* ------------------------------------------ the mixed-lengths specification

\* The single client again, with embeddings of different lengths: the empty
\* one is what getEmbedding returns when the embedding service's reply does
\* not decode (the handlers store and search it like any other).
LengthVectors == {<<>>, <<1>>, <<0, 0>>, <<1, 2>>, <<0, 1, 0, 0, 1>>}

LengthNext ==
  \/ \E id \in ServerIds, v \in LengthVectors :
       AddItemCall("t1", id, <<v, NilMap, "">>)
  \/ AddItemLocked("t1")
  \/ AddItemReplace("t1")
  \/ AddItemRegister("t1")
  \/ AddItemAppend("t1")
  \/ AddItemDone("t1")
  \/ \E query \in LengthVectors, k \in 1..MaxK, numWorkers \in 1..MaxWorkers :
       SearchCall("t1", query, k, <<"", "", "">>, numWorkers)
  \/ \E w \in 1..MaxWorkers : WorkerRun("t1", w)
  \/ \E w \in 1..MaxWorkers : WorkerPanic("t1", w)
  \/ CloseChan("t1")
  \/ MergeRecv("t1")
  \/ SearchReturn("t1")
  \/ SearchDone("t1")

LengthSpec == ClientInit /\ [][LengthNext]_vars

\* C14 as claimed: no Search with k > 0 ends the process with a panic,
\* whatever the lengths of the query and of the stored vectors.
C14_Claimed == ~(exit.cause = "panic" /\ exit.op = "Search" /\ exit.k > 0)

\* Every component of v is 0.
IsZero(v) == \A i \in 1..Len(v) : v[i] = 0

\* The results goroutine t's Search holds: in the chunks on the channel, in
\* the merge heap and in the list it returns.
ResultsOf(t) ==
  UNION {{workChan[t][c][r] : r \in 1..Len(workChan[t][c])} :
           c \in 1..Len(workChan[t])}
    \cup {finalHeap[t][r] : r \in 1..Len(finalHeap[t])}
    \cup {finalResults[t][r] : r \in 1..Len(finalResults[t])}

\* C15: AddItem stores an all-zero vector as it was given, and every result
\* a Search produces for a record whose vector is all zeros carries the
\* score 0, whatever the query.
C15_ZeroVectorScoresZero ==
  \A t \in Handlers :
    /\ (pc[t] = "a_ret" /\ IsZero(call[t].vector)) =>
         RecordOf(call[t].id).Vector = call[t].vector
    /\ pc[t] \in {"s_merge", "s_ret"} =>
         \A r \in ResultsOf(t) : IsZero(RecordOf(r.ID).Vector) => r.Score = 0

\* A Search with a non-zero query has returned two results: a record with a
\* score above 0 and, after it, a <<0, 0>> record with the score 0.
C15_Witness ==
  \E t \in Handlers :
    /\ Returned(t) /\ ~IsZero(call[t].query)
    /\ Len(finalResults[t]) = 2
    /\ finalResults[t][1].Score > 0
    /\ finalResults[t][2].Score = 0
    /\ RecordOf(finalResults[t][2].ID).Vector = <<0, 0>>

\* C16: the ranges Search schedules for n records and W workers are at most
\* W, each non-empty and inside [0, n), each starting where the one before
\* ends, the first at 0 and the last ending at n, so that every position is
\* in exactly one range; for n = 0 there is none.
C16_PartitionCovers ==
  \A t \in Handlers :
    (pc[t] = "f_ret" /\ call[t].op = "Partition") =>
      LET sh == call[t].out
          n == call[t].n
      IN  /\ Len(sh) <= call[t].numWorkers
          /\ n = 0 => sh = <<>>
          /\ \A i \in 1..Len(sh) : 0 <= sh[i].s /\ sh[i].s < sh[i].e /\ sh[i].e <= n
          /\ \A i \in 1..(Len(sh) - 1) : sh[i].e = sh[i + 1].s
          /\ \A p \in 0..(n - 1) :
               Cardinality({i \in 1..Len(sh) : sh[i].s <= p /\ p < sh[i].e}) = 1

\* A partition with fewer ranges than workers whose last range is shorter
\* than its first.
C16_Witness ==
  \E t \in Handlers :
    /\ pc[t] = "f_ret" /\ call[t].op = "Partition"
    /\ LET sh == call[t].out
       IN  /\ Len(sh) > 1 /\ Len(sh) < call[t].numWorkers
           /\ sh[Len(sh)].e - sh[Len(sh)].s < sh[1].e - sh[1].s

\* The sum of a[i] * b[i] over the positions i..Len(a).
RECURSIVE SumProducts(_, _, _)
SumProducts(a, b, i) ==
  IF i > Len(a) THEN 0 ELSE a[i] * b[i] + SumProducts(a, b, i + 1)

\* C20: for two vectors of the same length DotProduct returns, without a
\* panic, the sum of a[i] * b[i] over every position.
C20_DotProductSums ==
  \A t \in Handlers :
    (pc[t] = "f_ret" /\ call[t].op = "DotProduct") =>
      /\ ~call[t].out.panic
      /\ call[t].out.val = SumProducts(call[t].a, call[t].b, 1)

\* A DotProduct of two vectors of nine components (two groups of four and a
\* remainder of one) whose last product is part of the sum.
C20_Witness ==
  \E t \in Handlers :
    /\ pc[t] = "f_ret" /\ call[t].op = "DotProduct"
    /\ Len(call[t].a) = 9 /\ call[t].b[9] = Pow3(8) /\ call[t].a[9] = 2
    /\ call[t].out.val > 2 * Pow3(8)

\* --------------------------------------- the fair single-client specification

\* The single client under the Go scheduler: a goroutine that can run does
\* run, so each shard worker, the closer and the merging caller take their
\* steps when these stay possible.
FairNext ==
  \/ \E id \in ServerIds, item \in ServerItems : AddItemCall("t1", id, item)
  \/ AddItemLocked("t1")
  \/ AddItemReplace("t1")
  \/ AddItemRegister("t1")
  \/ AddItemAppend("t1")
  \/ AddItemDone("t1")
  \/ \E query \in QueryVectors, k \in -1..MaxK, numWorkers \in 1..MaxWorkers :
       SearchCall("t1", query, k, <<"", "", "">>, numWorkers)
  \/ \E w \in 1..MaxWorkers : WorkerRun("t1", w)
  \/ \E w \in 1..MaxWorkers : WorkerPanic("t1", w)
  \/ CloseChan("t1")
  \/ MergeRecv("t1")
  \/ SearchReturn("t1")
  \/ SearchDone("t1")

Fairness ==
  /\ \A w \in 1..MaxWorkers : WF_vars(WorkerRun("t1", w))
  /\ WF_vars(CloseChan("t1"))
  /\ WF_vars(MergeRecv("t1"))
  /\ WF_vars(SearchReturn("t1"))

FairSearchSpec == ClientInit /\ [][FairNext]_vars /\ Fairness

\* The shard workers of t's Search that have not sent yet.
Running(t) == {w \in 1..Len(wpc[t]) : wpc[t][w] = "run"}

\* What holds all through a Search with k > 0: the channel has room for
\* every worker that has yet to send; it is closed only when every worker
\* has sent; and when Search has returned every worker has finished and
\* every chunk was received.
SearchPlumbing(t) ==
  (pc[t] \in {"s_merge", "s_ret"} /\ call[t].k > 0) =>
    /\ Len(workChan[t]) + Cardinality(Running(t)) <= call[t].numWorkers
    /\ wg[t] = Cardinality(Running(t))
    /\ chanClosed[t] => Running(t) = {}
    /\ pc[t] = "s_ret" =>
         (Running(t) = {} /\ workChan[t] = <<>> /\ chanClosed[t])

\* C17: under fair scheduling every Search with k > 0 returns, no worker
\* ever finds the channel full, the channel is closed only after the last
\* send, and at the return no worker is left and no chunk is unread.
C17_SearchTerminates ==
  /\ []SearchPlumbing("t1")
  /\ (pc["t1"] = "s_merge" /\ call["t1"].k > 0) ~> (pc["t1"] = "s_ret")

\* A Search over two shards with k > 0 has returned two results; both
\* workers are done, the channel is closed and empty.
C17_Witness ==
  /\ pc["t1"] = "s_ret" /\ call["t1"].k > 0
  /\ Len(wpc["t1"]) = 2 /\ Running("t1") = {}
  /\ chanClosed["t1"] /\ workChan["t1"] = <<>>
  /\ Len(finalResults["t1"]) = 2

\* C18 as claimed: when Save has written its snapshot and main is about to
\* shut the server down and return, with every request answered, the
\* snapshot holds the tuples of every record of the store (each of them
\* loaded at boot or stored by an /add that was answered with success).
C18_Claimed ==
  (pc["main"] = "stopping" /\ file.closed /\ \A t \in Handlers : pc[t] = "idle")
    => Tuples(Records) = Tuples(saved)

\* C19 as claimed: in the reply of /query every result's metadata is the
\* metadata of the record that the Search scanned under that id.
C19_Claimed ==
  \A t \in Handlers :
    pc[t] = "q_ret" =>
      \A r \in 1..Len(call[t].response) :
        call[t].response[r].Metadata =
          call[t].snapshot[IDMap[call[t].response[r].ID] + 1].Metadata

=============================================================================
